---- MODULE Spec2Model ----
(***************************************************************************)
(* dirmon (src/main.rs): a watcher of the top-level directories of "./".   *)
(*                                                                         *)
(* A path is the sequence of its components below the watch root, so       *)
(* "./Alpha" is <<"Alpha">>, "./Sub/Alpha" is <<"Sub", "Alpha">> and "./"  *)
(* itself is << >>.  An Option is a sequence of length 0 (None) or 1       *)
(* (Some).  The filesystem and the notify crate are the environment: the   *)
(* tree changes by single system calls at any moment, and the watcher may  *)
(* have sent any notification by the time the loop receives one, so the    *)
(* message of an iteration is drawn when it is received.  The walk of      *)
(* find_moved_directory is taken on one snapshot of the tree, and the      *)
(* paths of one notification are handled in one step.                      *)
(***************************************************************************)
EXTENDS Naturals, Sequences, FiniteSets

\* ---------------------------------------------------------------- bounds
\* Most entries (directories and files) the tree holds at once.
MaxEntries == 3
\* Most paths one notification carries.
MaxPaths == 1
\* Most paths a notification carries in the runs with batched notifications.
MaxBatch == 2
\* Most notifications a stream of fixed length holds.
MaxStream == 2

\* ------------------------------------------------------------ the inputs
None == << >>
Some(x) == <<x>>

\* Entry names: an ordinary name, the squelched name, and a directory that
\* serves as the nested location.
Names == {"Alpha", "New folder", "Sub"}
NestName == "Sub"

\* Every path the model's tree can hold: "./n" for each name, and "./Sub/n"
\* for each name but Sub itself.
Paths ==
    {<<n>> : n \in Names} \cup {<<NestName, n>> : n \in Names \ {NestName}}

Kinds == {"none", "dir", "file"}

\* The orders in which a directory listing may return the names; a run keeps
\* one of them.
Orders == {<<"Alpha", "New folder", "Sub">>, <<"Sub", "New folder", "Alpha">>}

VARIABLES
    fs,                 \* the tree below the watch root: path -> kind
    order,              \* the order read_dir lists names in
    known_directories,  \* main.rs:21, the HashSet<PathBuf>
    e,                  \* main.rs:50, the message of the iteration, or None
    emitted,            \* the lines printed by the iteration
    running,            \* the `for e in rx` loop has not ended
    vanished,           \* the top-level paths whose removal can be reported
    stream,             \* Some(n): rx still yields n messages; None: any number
    known_loud,         \* known_directories of the run without the squelch
    emitted_loud        \* the lines of the iteration without the squelch

vars == <<fs, order, known_directories, e, emitted, running, vanished,
          stream, known_loud, emitted_loud>>

\* ------------------------------------------------------------ std::path
watch_path == << >>

Parent(p) == IF p = << >> THEN None ELSE Some(SubSeq(p, 1, Len(p) - 1))

FileName(p) == IF p = << >> THEN "" ELSE p[Len(p)]

NewFolder == <<"New folder">>

IsDir(tree, p) == p = watch_path \/ (p \in Paths /\ tree[p] = "dir")

KindOf(tree, p) == IF p \in Paths THEN tree[p] ELSE "none"

Exists(tree, p) == KindOf(tree, p) # "none"

\* ------------------------------------------------------------- walkdir
RECURSIVE Walk(_, _, _)
RECURSIVE WalkChildren(_, _, _, _)
\* The entries below and including p, in pre-order, the children of a
\* directory in listing order.
Walk(tree, ord, p) ==
    <<p>> \o (IF IsDir(tree, p) THEN WalkChildren(tree, ord, p, 1) ELSE << >>)

WalkChildren(tree, ord, p, i) ==
    IF i > Len(ord) THEN << >>
    ELSE LET c == Append(p, ord[i]) IN
         (IF Exists(tree, c) THEN Walk(tree, ord, c) ELSE << >>)
             \o WalkChildren(tree, ord, p, i + 1)

\* walkdir's DirEntry::file_name: the full path when there is no file name.
EntryFileName(p) == IF p = << >> THEN "./" ELSE FileName(p)

\* Faulty variant: the walk's filter forgets is_dir, so a file of that name is found.
find_moved_directory_AnyEntry(dir_name, tree, ord) ==
    LET w == Walk(tree, ord, watch_path)
        hits == {i \in 1..Len(w) : EntryFileName(w[i]) = dir_name}
    IN  IF hits = {} THEN None
        ELSE Some(w[CHOOSE i \in hits : \A j \in hits : i <= j])

\* Faulty variant: the search looks at the top level only.
find_moved_directory_TopOnly(dir_name, tree, ord) ==
    IF IsDir(tree, <<dir_name>>) THEN Some(<<dir_name>>) ELSE None

\* Faulty variant: the walk's filter forgets the name, so the first directory
\* below the watch root is found.
find_moved_directory_AnyName(dir_name, tree, ord) ==
    LET w == Walk(tree, ord, watch_path)
        hits == {i \in 1..Len(w) : IsDir(tree, w[i]) /\ w[i] # watch_path}
    IN  IF hits = {} THEN None
        ELSE Some(w[CHOOSE i \in hits : \A j \in hits : i <= j])

\* main.rs:7-14.
find_moved_directory(dir_name, tree, ord) ==
    LET w == Walk(tree, ord, watch_path)
        hits == {i \in 1..Len(w) :
                    IsDir(tree, w[i]) /\ EntryFileName(w[i]) = dir_name}
    IN  IF hits = {} THEN None
        ELSE Some(w[CHOOSE i \in hits : \A j \in hits : i <= j])

\* ------------------------------------------------------- printed lines
Line(t, n, p) == [type |-> t, name |-> n, path |-> p]
TopLevelCreated(p) == Line("TopLevelCreated", "", p)
TopLevelMoved(n, p) == Line("TopLevelMoved", n, p)
TopLevelRemoved(p) == Line("TopLevelRemoved", "", p)
WatchError == Line("WatchError", "", << >>)

\* ------------------------------------------------------ the loop body
\* Faulty variant: the line is printed but the path is not inserted.
CreatePath_NoInsert(path, st, tree) ==
    IF IsDir(tree, path) /\ Parent(path) = Some(watch_path)
    THEN [known |-> st.known,
          out |-> IF path # NewFolder
                  THEN Append(st.out, TopLevelCreated(path))
                  ELSE st.out]
    ELSE st

\* Faulty variant: the insert sits inside the squelch test.
CreatePath_SquelchInsert(path, st, tree) ==
    IF IsDir(tree, path) /\ Parent(path) = Some(watch_path) /\ path # NewFolder
    THEN [known |-> st.known \cup {path},
          out |-> Append(st.out, TopLevelCreated(path))]
    ELSE st

\* Faulty variant: the path is not tested for being a directory.
CreatePath_NoDirCheck(path, st, tree) ==
    IF Parent(path) = Some(watch_path)
    THEN [known |-> st.known \cup {path},
          out |-> IF path # NewFolder
                  THEN Append(st.out, TopLevelCreated(path))
                  ELSE st.out]
    ELSE st

\* Faulty variant: the parent of the path is not compared with the watch root.
CreatePath_AnyDepth(path, st, tree) ==
    IF IsDir(tree, path)
    THEN [known |-> st.known \cup {path},
          out |-> IF path # NewFolder
                  THEN Append(st.out, TopLevelCreated(path))
                  ELSE st.out]
    ELSE st

\* Faulty variant: the line is put in front of the lines printed so far.
CreatePath_Prepend(path, st, tree) ==
    IF IsDir(tree, path) /\ Parent(path) = Some(watch_path)
    THEN [known |-> st.known \cup {path},
          out |-> IF path # NewFolder
                  THEN <<TopLevelCreated(path)>> \o st.out
                  ELSE st.out]
    ELSE st

\* Faulty variant: a path that is a member already is taken out again.
CreatePath_Toggle(path, st, tree) ==
    IF IsDir(tree, path) /\ Parent(path) = Some(watch_path)
    THEN [known |-> IF path \in st.known THEN st.known \ {path}
                    ELSE st.known \cup {path},
          out |-> IF path # NewFolder
                  THEN Append(st.out, TopLevelCreated(path))
                  ELSE st.out]
    ELSE st

\* main.rs:55-69, the body of `for path in &event.paths` of the Create arm;
\* st is [known, out].
CreatePath(path, st, tree) ==
    IF IsDir(tree, path) /\ Parent(path) = Some(watch_path)
    THEN [known |-> st.known \cup {path},
          out |-> IF path # NewFolder
                  THEN Append(st.out, TopLevelCreated(path))
                  ELSE st.out]
    ELSE st

\* Faulty variant: the move line is squelched like the other two.
RemovePath_SquelchMoved(path, st, tree, ord) ==
    IF path \in st.known
    THEN LET dir_name == FileName(path)
             found == find_moved_directory(dir_name, tree, ord)
         IN  IF found # None
             THEN LET new_path == found[1] IN
                  [known |-> (st.known \ {path}) \cup
                             (IF Parent(new_path) = Some(watch_path)
                              THEN {new_path} ELSE {}),
                   out |-> IF path # NewFolder
                           THEN Append(st.out, TopLevelMoved(dir_name, new_path))
                           ELSE st.out]
             ELSE [known |-> st.known \ {path},
                   out |-> IF path # NewFolder
                           THEN Append(st.out, TopLevelRemoved(path))
                           ELSE st.out]
    ELSE st

\* Faulty variant: the new path is inserted wherever it lies.
RemovePath_TrackAnywhere(path, st, tree, ord) ==
    IF path \in st.known
    THEN LET dir_name == FileName(path)
             found == find_moved_directory(dir_name, tree, ord)
         IN  IF found # None
             THEN LET new_path == found[1] IN
                  [known |-> (st.known \ {path}) \cup {new_path},
                   out |-> Append(st.out, TopLevelMoved(dir_name, new_path))]
             ELSE [known |-> st.known \ {path},
                   out |-> IF path # NewFolder
                           THEN Append(st.out, TopLevelRemoved(path))
                           ELSE st.out]
    ELSE st

\* Faulty variant: the path is not looked up in known_directories first.
RemovePath_NoGuard(path, st, tree, ord) ==
    LET dir_name == FileName(path)
        found == find_moved_directory(dir_name, tree, ord)
    IN  IF found # None
        THEN LET new_path == found[1] IN
             [known |-> (st.known \ {path}) \cup
                        (IF Parent(new_path) = Some(watch_path)
                         THEN {new_path} ELSE {}),
              out |-> Append(st.out, TopLevelMoved(dir_name, new_path))]
        ELSE [known |-> st.known \ {path},
              out |-> IF path # NewFolder
                      THEN Append(st.out, TopLevelRemoved(path))
                      ELSE st.out]

\* Faulty variant: the remove of the else branch sits inside the squelch test.
RemovePath_SquelchRemove(path, st, tree, ord) ==
    IF path \in st.known
    THEN LET dir_name == FileName(path)
             found == find_moved_directory(dir_name, tree, ord)
         IN  IF found # None
             THEN LET new_path == found[1] IN
                  [known |-> (st.known \ {path}) \cup
                             (IF Parent(new_path) = Some(watch_path)
                              THEN {new_path} ELSE {}),
                   out |-> Append(st.out, TopLevelMoved(dir_name, new_path))]
             ELSE IF path # NewFolder
                  THEN [known |-> st.known \ {path},
                        out |-> Append(st.out, TopLevelRemoved(path))]
                  ELSE st
    ELSE st

\* Faulty variant: the move branch does not remove the old path.
RemovePath_NoRemoveOnMove(path, st, tree, ord) ==
    IF path \in st.known
    THEN LET dir_name == FileName(path)
             found == find_moved_directory(dir_name, tree, ord)
         IN  IF found # None
             THEN LET new_path == found[1] IN
                  [known |-> st.known \cup
                             (IF Parent(new_path) = Some(watch_path)
                              THEN {new_path} ELSE {}),
                   out |-> Append(st.out, TopLevelMoved(dir_name, new_path))]
             ELSE [known |-> st.known \ {path},
                   out |-> IF path # NewFolder
                           THEN Append(st.out, TopLevelRemoved(path))
                           ELSE st.out]
    ELSE st

\* main.rs:72-109, the body of `for path in &event.paths` of the Remove arm.
RemovePath(path, st, tree, ord) ==
    IF path \in st.known
    THEN LET dir_name == FileName(path)
             found == find_moved_directory(dir_name, tree, ord)
         IN  IF found # None
             THEN LET new_path == found[1] IN
                  [known |-> (st.known \ {path}) \cup
                             (IF Parent(new_path) = Some(watch_path)
                              THEN {new_path} ELSE {}),
                   out |-> Append(st.out, TopLevelMoved(dir_name, new_path))]
             ELSE [known |-> st.known \ {path},
                   out |-> IF path # NewFolder
                           THEN Append(st.out, TopLevelRemoved(path))
                           ELSE st.out]
    ELSE st

RECURSIVE ForPaths(_, _, _, _, _)
\* main.rs:55 and main.rs:72, `for path in &event.paths`.
ForPaths(kind, paths, st, tree, ord) ==
    IF paths = << >> THEN st
    ELSE ForPaths(kind, Tail(paths),
                  IF kind = "Create" THEN CreatePath(Head(paths), st, tree)
                  ELSE RemovePath(Head(paths), st, tree, ord),
                  tree, ord)

\* Faulty variant: the default arm handles the event like a Create.
Handle_OtherAsCreate(msg, known, tree, ord) ==
    IF msg.kind = "Error" THEN [known |-> known, out |-> <<WatchError>>]
    ELSE IF msg.kind = "Remove"
    THEN ForPaths(msg.kind, msg.paths, [known |-> known, out |-> << >>], tree, ord)
    ELSE ForPaths("Create", msg.paths, [known |-> known, out |-> << >>], tree, ord)

\* main.rs:51-122, the body of `for e in rx` on the message msg.
Handle(msg, known, tree, ord) ==
    IF msg.kind = "Error" THEN [known |-> known, out |-> <<WatchError>>]
    ELSE IF msg.kind \in {"Create", "Remove"}
    THEN ForPaths(msg.kind, msg.paths, [known |-> known, out |-> << >>], tree, ord)
    ELSE [known |-> known, out |-> << >>]

\* ------------------------------------- the loop body without the squelch
\* main.rs:55-69 with the test of main.rs:59 taken out: the line is printed
\* for every path.
CreatePathLoud(path, st, tree) ==
    IF IsDir(tree, path) /\ Parent(path) = Some(watch_path)
    THEN [known |-> st.known \cup {path},
          out |-> Append(st.out, TopLevelCreated(path))]
    ELSE st

\* main.rs:72-109 with the test of main.rs:98 taken out.
RemovePathLoud(path, st, tree, ord) ==
    IF path \in st.known
    THEN LET dir_name == FileName(path)
             found == find_moved_directory(dir_name, tree, ord)
         IN  IF found # None
             THEN LET new_path == found[1] IN
                  [known |-> (st.known \ {path}) \cup
                             (IF Parent(new_path) = Some(watch_path)
                              THEN {new_path} ELSE {}),
                   out |-> Append(st.out, TopLevelMoved(dir_name, new_path))]
             ELSE [known |-> st.known \ {path},
                   out |-> Append(st.out, TopLevelRemoved(path))]
    ELSE st

RECURSIVE ForPathsLoud(_, _, _, _, _)
ForPathsLoud(kind, paths, st, tree, ord) ==
    IF paths = << >> THEN st
    ELSE ForPathsLoud(kind, Tail(paths),
                      IF kind = "Create" THEN CreatePathLoud(Head(paths), st, tree)
                      ELSE RemovePathLoud(Head(paths), st, tree, ord),
                      tree, ord)

\* main.rs:51-122 without the two squelch tests.
HandleLoud(msg, known, tree, ord) ==
    IF msg.kind = "Error" THEN [known |-> known, out |-> <<WatchError>>]
    ELSE IF msg.kind \in {"Create", "Remove"}
    THEN ForPathsLoud(msg.kind, msg.paths, [known |-> known, out |-> << >>], tree, ord)
    ELSE [known |-> known, out |-> << >>]

\* ------------------------------------------------------- the messages
RECURSIVE PathSeqs(_)
PathSeqs(n) ==
    IF n = 0 THEN {<< >>}
    ELSE PathSeqs(n - 1) \cup
         {Append(s, p) : s \in {t \in PathSeqs(n - 1) : Len(t) = n - 1}, p \in Paths}

\* What the channel can deliver: a Create or Remove event with its paths, an
\* event of another kind, or an error.
Messages ==
    {[kind |-> k, paths |-> s] : k \in {"Create", "Remove"},
                                 s \in PathSeqs(MaxPaths) \ {<< >>}}
        \cup {[kind |-> "Modify", paths |-> <<p>>] : p \in Paths}
        \cup {[kind |-> "Error", paths |-> << >>]}

\* Create and Remove events that carry several paths.
Batches ==
    {[kind |-> k, paths |-> s] : k \in {"Create", "Remove"},
                                 s \in {t \in PathSeqs(MaxBatch) : Len(t) > 1}}

\* ----------------------------------------------------------- the tree
Entries(tree) == {p \in Paths : tree[p] # "none"}

\* Every entry but a top-level one lies in a directory.
WellFormed(tree) ==
    /\ \A p \in Paths : tree[p] # "none" /\ Len(p) > 1 => tree[Parent(p)[1]] = "dir"
    /\ Cardinality(Entries(tree)) <= MaxEntries

Trees == {t \in [Paths -> Kinds] : WellFormed(t)}

IsPrefix(a, b) == Len(a) <= Len(b) /\ SubSeq(b, 1, Len(a)) = a

\* The paths directly below the watch root.
TopLevel == {p \in Paths : Len(p) = 1}

\* Faulty variant: the initial scan descends into the directories.
InitialScan_Recursive(tree) == {p \in Paths : tree[p] = "dir"}

\* main.rs:25-37: the top-level directories found by the initial scan.
InitialScan(tree) == {p \in Paths : Len(p) = 1 /\ tree[p] = "dir"}

Init ==
    /\ fs \in Trees
    /\ order \in Orders
    /\ known_directories = InitialScan(fs)
    /\ e = None
    /\ emitted = << >>
    /\ running = TRUE
    /\ vanished = TopLevel
    /\ stream = None
    /\ known_loud = known_directories
    /\ emitted_loud = << >>

\* ------------------------------------------------- filesystem actions
\* Other processes change the tree by single system calls.  An iteration of
\* the loop is one step, so a change that falls into an iteration is taken
\* before or after it: the tree changes while the loop waits on rx.
env_frame ==
    UNCHANGED <<order, known_directories, e, emitted, running,
                stream, known_loud, emitted_loud>>

\* mkdir(p) or the creation of a file at p.
FsCreate(p, k) ==
    /\ running /\ e = None
    /\ fs[p] = "none"
    /\ IsDir(fs, Parent(p)[1])
    /\ Cardinality(Entries(fs)) < MaxEntries
    /\ fs' = [fs EXCEPT ![p] = k]
    /\ vanished' = vanished
    /\ env_frame

\* rmdir(p) of an empty directory, or unlink(p) of a file.
FsDelete(p) ==
    /\ running /\ e = None
    /\ fs[p] # "none"
    /\ \A q \in Paths : IsPrefix(p, q) /\ q # p => fs[q] = "none"
    /\ fs' = [fs EXCEPT ![p] = "none"]
    /\ vanished' = vanished \cup ({p} \cap TopLevel)
    /\ env_frame

\* Where rename(src, dst) takes the entry q at or below src.
Renamed(src, dst, q) == dst \o SubSeq(q, Len(src) + 1, Len(q))

\* rename(src, dst): the entry and everything below it moves.
FsRename(src, dst) ==
    /\ running /\ e = None
    /\ fs[src] # "none"
    /\ fs[dst] = "none"
    /\ ~IsPrefix(src, dst)
    /\ IsDir(fs, Parent(dst)[1])
    /\ \A q \in Paths : IsPrefix(src, q) /\ fs[q] # "none" => Renamed(src, dst, q) \in Paths
    /\ fs' = [q \in Paths |->
                IF IsPrefix(dst, q)
                THEN KindOf(fs, Renamed(dst, src, q))
                ELSE IF IsPrefix(src, q) THEN "none" ELSE fs[q]]
    /\ vanished' = vanished \cup ({src} \cap TopLevel)
    /\ env_frame

\* ------------------------------------------------------ the main loop
\* The watcher reports the removal of a top-level path only once the path
\* has vanished.
Reported(m) ==
    m.kind = "Remove" =>
        \A i \in 1..Len(m.paths) : m.paths[i] \in TopLevel => m.paths[i] \in vanished

\* Faulty variant: the Err arm leaves the loop.
Recv_BreakOnError(m) ==
    /\ running /\ e = None
    /\ stream # Some(0)
    /\ Reported(m)
    /\ LET r == Handle(m, known_directories, fs, order) IN
         /\ known_directories' = r.known
         /\ emitted' = r.out
    /\ LET r == HandleLoud(m, known_loud, fs, order) IN
         /\ known_loud' = r.known
         /\ emitted_loud' = r.out
    /\ e' = Some(m)
    /\ stream' = IF stream = None THEN None ELSE Some(stream[1] - 1)
    /\ running' = (m.kind # "Error")
    /\ UNCHANGED <<fs, order, vanished>>

\* main.rs:50-123: one iteration of `for e in rx`.  The watcher's thread may
\* have sent any message, so the iteration receives any m.
Recv(m) ==
    /\ running /\ e = None
    /\ stream # Some(0)
    /\ Reported(m)
    /\ LET r == Handle(m, known_directories, fs, order) IN
         /\ known_directories' = r.known
         /\ emitted' = r.out
    /\ LET r == HandleLoud(m, known_loud, fs, order) IN
         /\ known_loud' = r.known
         /\ emitted_loud' = r.out
    /\ e' = Some(m)
    /\ stream' = IF stream = None THEN None ELSE Some(stream[1] - 1)
    /\ UNCHANGED <<fs, order, running, vanished>>

\* The body is done: e is dropped and the loop waits on rx again.
NextIteration ==
    /\ running /\ e # None
    /\ e' = None
    /\ emitted' = << >>
    /\ emitted_loud' = << >>
    /\ UNCHANGED <<fs, order, known_directories, running, vanished,
                   stream, known_loud>>

\* Faulty variant: the iterator ends while the channel holds messages.
EndOfStream_BeforeEmpty ==
    /\ running /\ e = None
    /\ running' = FALSE
    /\ UNCHANGED <<fs, order, known_directories, e, emitted, vanished,
                   stream, known_loud, emitted_loud>>

\* Every Sender is dropped and the channel is empty: the iterator ends.
EndOfStream ==
    /\ running /\ e = None
    /\ stream \in {None, Some(0)}
    /\ running' = FALSE
    /\ UNCHANGED <<fs, order, known_directories, e, emitted, vanished,
                   stream, known_loud, emitted_loud>>

Next ==
    \/ \E p \in Paths, k \in {"dir", "file"} : FsCreate(p, k)
    \/ \E p \in Paths : FsDelete(p)
    \/ \E src \in Paths, dst \in Paths : FsRename(src, dst)
    \/ \E m \in Messages : Recv(m)
    \/ NextIteration
    \/ EndOfStream

\* The watcher is left free: the removal of any path may be reported at any
\* time (late, twice, or for a path that is there again).
Spec == Init /\ [][Next]_vars

\* The watcher reports the removal of a path only after the path vanished
\* during the run.
InitPoll ==
    /\ fs \in Trees
    /\ order \in Orders
    /\ known_directories = InitialScan(fs)
    /\ e = None
    /\ emitted = << >>
    /\ running = TRUE
    /\ vanished = {}
    /\ stream = None
    /\ known_loud = known_directories
    /\ emitted_loud = << >>

SpecPoll == InitPoll /\ [][Next]_vars

\* No directory is ever moved: the tree starts with top-level entries only
\* and changes by creations and deletions alone, so every nested directory
\* was created during the run and every entry that is gone was deleted.
InitRace ==
    /\ InitPoll
    /\ \A p \in Paths \ TopLevel : fs[p] = "none"

NextRace ==
    \/ \E p \in Paths, k \in {"dir", "file"} : FsCreate(p, k)
    \/ \E p \in Paths : FsDelete(p)
    \/ \E m \in Messages : Recv(m)
    \/ NextIteration
    \/ EndOfStream

SpecRace == InitRace /\ [][NextRace]_vars

\* The watcher batches: a notification carries one path or several.
NextBatch ==
    \/ \E p \in Paths, k \in {"dir", "file"} : FsCreate(p, k)
    \/ \E p \in Paths : FsDelete(p)
    \/ \E src \in Paths, dst \in Paths : FsRename(src, dst)
    \/ \E m \in Messages \cup Batches : Recv(m)
    \/ NextIteration
    \/ EndOfStream

SpecBatch == Init /\ [][NextBatch]_vars

\* The stream is finite and closed: it holds a fixed number of messages.  A
\* blocking recv returns once a message is there or the channel is closed,
\* and the body of the loop runs to its end.
InitLive ==
    /\ fs \in Trees
    /\ order \in Orders
    /\ known_directories = InitialScan(fs)
    /\ e = None
    /\ emitted = << >>
    /\ running = TRUE
    /\ vanished = TopLevel
    /\ stream \in {Some(n) : n \in 0..MaxStream}
    /\ known_loud = known_directories
    /\ emitted_loud = << >>

\* Some message is received: \E m \in Messages : Recv(m), told by e'.
Receive == \E m \in Messages : e' = Some(m) /\ Recv(m)

SpecLive ==
    /\ InitLive
    /\ [][Next]_vars
    /\ WF_vars(Receive)
    /\ WF_vars(NextIteration)
    /\ WF_vars(EndOfStream)

TypeOK ==
    /\ fs \in Trees
    /\ order \in Orders
    /\ known_directories \subseteq Paths
    /\ e = None \/ (Len(e) = 1 /\ e[1] \in Messages \cup Batches)
    /\ running \in BOOLEAN
    /\ vanished \subseteq TopLevel
    /\ stream = None \/ (Len(stream) = 1 /\ stream[1] \in 0..MaxStream)
    /\ known_loud \subseteq Paths

\* =====================================================================
\* Properties
\* =====================================================================
Single(k, p) == [kind |-> k, paths |-> <<p>>]

\* The step is an iteration of the loop: Recv(m) with m = e'[1].
Received == e = None /\ e' # None

IsTopLevel(p) == Parent(p) = Some(watch_path)

\* Some directory of the tree bears the name n.
HasDirNamed(tree, n) == \E q \in Paths : tree[q] = "dir" /\ FileName(q) = n

\* How often x occurs in the sequence s.
Count(s, x) == Cardinality({i \in 1..Len(s) : s[i] = x})

\* ---------------------------------------------------------------- C1
\* C1: when a Create notification is handled, every path of it that is then
\* a directory directly below the watch root and is not named "New folder"
\* gets one TopLevelCreated line per occurrence in the notification (exactly
\* one for a notification of that one path), and is a member of
\* known_directories after the step.
C1_CreateClassified ==
    [][Received =>
          LET m == e'[1] IN
          m.kind = "Create" =>
              \A i \in 1..Len(m.paths) :
                  LET p == m.paths[i] IN
                  IsDir(fs, p) /\ IsTopLevel(p) /\ FileName(p) # "New folder" =>
                      /\ Count(emitted', TopLevelCreated(p)) = Count(m.paths, p)
                      /\ p \in known_directories'
                      /\ (m.paths = <<p>> => emitted' = <<TopLevelCreated(p)>>)]_vars

\* P8 of the specification: the registry was empty, Create("./Alpha") is
\* handled, one line is printed and the registry is {"./Alpha"}.
C1_Witness ==
    /\ e = Some(Single("Create", <<"Alpha">>))
    /\ emitted = <<TopLevelCreated(<<"Alpha">>)>>
    /\ known_directories = {<<"Alpha">>}

\* ---------------------------------------------------------------- C2
\* C2: a Remove notification for a member D of known_directories named X,
\* handled while some directory named X is in the tree, prints exactly one
\* line, TopLevelMoved(X, new_path) with new_path a directory named X, and
\* no TopLevelRemoved; also when X is "New folder".
C2_MoveEmitted ==
    [][Received =>
          LET m == e'[1] IN
          m.kind = "Remove" /\ Len(m.paths) = 1 =>
              LET D == m.paths[1]
                  X == FileName(D)
              IN  D \in known_directories /\ HasDirNamed(fs, X) =>
                      \E q \in Paths :
                          /\ fs[q] = "dir" /\ FileName(q) = X
                          /\ emitted' = <<TopLevelMoved(X, q)>>]_vars

\* The placeholder's removal is reported as a move to "./Sub/New folder".
C2_Witness ==
    /\ e = Some(Single("Remove", NewFolder))
    /\ emitted = <<TopLevelMoved("New folder", <<"Sub", "New folder">>)>>

\* ---------------------------------------------------------------- C3
\* C3 as claimed: after Remove(D) for a member D is reported as
\* TopLevelMoved(X, new_path), D is no member any more and new_path is a
\* member iff its parent is the watch root.
C3_Original ==
    [][Received =>
          LET m == e'[1] IN
          m.kind = "Remove" /\ Len(m.paths) = 1 =>
              LET D == m.paths[1] IN
              \A q \in Paths :
                  D \in known_directories
                      /\ emitted' = <<TopLevelMoved(FileName(D), q)>> =>
                          /\ D \notin known_directories'
                          /\ (q \in known_directories' <=> IsTopLevel(q))]_vars

\* C3 as amended: after Remove(D) for a member D is reported as
\* TopLevelMoved(X, new_path), new_path is a member iff its parent is the
\* watch root, and D is no member any more unless new_path is D itself.
C3_MoveRegistry ==
    [][Received =>
          LET m == e'[1] IN
          m.kind = "Remove" /\ Len(m.paths) = 1 =>
              LET D == m.paths[1] IN
              \A q \in Paths :
                  D \in known_directories
                      /\ emitted' = <<TopLevelMoved(FileName(D), q)>> =>
                          /\ (q # D => D \notin known_directories')
                          /\ (q \in known_directories' <=> IsTopLevel(q))
                          /\ known_directories' \subseteq known_directories \cup {q}]_vars

\* P7 of the specification: Remove("./Alpha") with "./Sub/Alpha" in the tree
\* leaves the registry empty.
C3_Witness ==
    /\ e = Some(Single("Remove", <<"Alpha">>))
    /\ emitted = <<TopLevelMoved("Alpha", <<"Sub", "Alpha">>)>>
    /\ known_directories = {}

\* ---------------------------------------------------------------- C4
\* C4 as claimed: a Remove notification for a member, handled while no
\* directory of its name is in the tree, prints exactly one
\* TopLevelRemoved(path) and removes the path.
C4_Original ==
    [][Received =>
          LET m == e'[1] IN
          m.kind = "Remove" /\ Len(m.paths) = 1 =>
              LET D == m.paths[1] IN
              D \in known_directories /\ ~HasDirNamed(fs, FileName(D)) =>
                  /\ emitted' = <<TopLevelRemoved(D)>>
                  /\ D \notin known_directories']_vars

\* C4 as amended: a Remove notification for a member, handled while no
\* directory of its name is in the tree, removes the path and prints exactly
\* one TopLevelRemoved(path), or nothing when the path is "./New folder".
C4_TrueDeletion ==
    [][Received =>
          LET m == e'[1] IN
          m.kind = "Remove" /\ Len(m.paths) = 1 =>
              LET D == m.paths[1] IN
              D \in known_directories /\ ~HasDirNamed(fs, FileName(D)) =>
                  /\ emitted' = IF D = NewFolder THEN << >>
                                ELSE <<TopLevelRemoved(D)>>
                  /\ known_directories' = known_directories \ {D}]_vars

\* "./Alpha" was removed for good; a file "./Sub/Alpha" is not mistaken for it.
C4_Witness ==
    /\ e = Some(Single("Remove", <<"Alpha">>))
    /\ emitted = <<TopLevelRemoved(<<"Alpha">>)>>
    /\ <<"Alpha">> \notin known_directories
    /\ fs[<<"Sub", "Alpha">>] = "file"

\* ---------------------------------------------------------------- C5
\* No line of the iteration reports "./New folder" created or removed.
NoPlaceholderLine ==
    \A i \in 1..Len(emitted) :
        emitted[i].type \in {"TopLevelCreated", "TopLevelRemoved"} =>
            emitted[i].path # NewFolder

\* A Create of the directory "./New folder" inserts it and prints nothing.
PlaceholderCreate ==
    Received /\ e' = Some(Single("Create", NewFolder)) /\ IsDir(fs, NewFolder) =>
        /\ emitted' = << >>
        /\ known_directories' = known_directories \cup {NewFolder}

\* C5 as claimed: TopLevelCreated and TopLevelRemoved are never printed for
\* "./New folder", a Create of the directory "./New folder" inserts it, and
\* a Remove of the member "./New folder" removes it.
C5_Original ==
    [][/\ NoPlaceholderLine'
       /\ PlaceholderCreate
       /\ Received /\ e' = Some(Single("Remove", NewFolder))
                   /\ NewFolder \in known_directories =>
              known_directories' = known_directories \ {NewFolder}]_vars

\* C5 as amended: TopLevelCreated and TopLevelRemoved are never printed for
\* "./New folder", a Create of the directory "./New folder" inserts it, and
\* a Remove of the member "./New folder" removes it unless the search finds
\* a directory at "./New folder" itself (then it is reported as moved there
\* and stays a member).
C5_PlaceholderSquelch ==
    [][/\ NoPlaceholderLine'
       /\ PlaceholderCreate
       /\ Received /\ e' = Some(Single("Remove", NewFolder))
                   /\ NewFolder \in known_directories =>
              IF emitted' = <<TopLevelMoved("New folder", NewFolder)>>
              THEN known_directories' = known_directories
              ELSE known_directories' = known_directories \ {NewFolder}]_vars

\* The directory "./New folder" has been created: no line, but a member.
C5_Witness ==
    /\ e = Some(Single("Create", NewFolder))
    /\ emitted = << >>
    /\ fs[NewFolder] = "dir"
    /\ NewFolder \in known_directories

\* ---------------------------------------------------------------- C6
\* C6: a Remove notification for a path that is no member of
\* known_directories prints nothing and leaves known_directories as it was.
C6_UnknownRemove ==
    [][Received =>
          LET m == e'[1] IN
          m.kind = "Remove"
                  /\ (\A i \in 1..Len(m.paths) : m.paths[i] \notin known_directories) =>
              /\ emitted' = << >>
              /\ known_directories' = known_directories]_vars

\* Remove("./Alpha") while only "./Sub" is a member: had "./Alpha" been a
\* member, a line would have been printed.
C6_Witness ==
    /\ e = Some(Single("Remove", <<"Alpha">>))
    /\ emitted = << >>
    /\ known_directories = {<<"Sub">>}

\* ---------------------------------------------------------------- C7
\* The path is nested, or the notification is a Create and the path is no
\* directory.
Ignorable(kind, p) == ~IsTopLevel(p) \/ (kind = "Create" /\ ~IsDir(fs, p))

\* C7: a Create or Remove notification whose paths are nested (the parent is
\* not the watch root), and a Create notification whose paths are no
\* directories, print nothing and leave known_directories as it was.
C7_NestedIgnored ==
    [][Received =>
          LET m == e'[1] IN
          m.kind \in {"Create", "Remove"}
                  /\ (\A i \in 1..Len(m.paths) : Ignorable(m.kind, m.paths[i])) =>
              /\ emitted' = << >>
              /\ known_directories' = known_directories]_vars

\* Create("./Sub/Alpha") for a directory that exists, with "./Sub" a member.
C7_Witness ==
    /\ e = Some(Single("Create", <<"Sub", "Alpha">>))
    /\ fs[<<"Sub", "Alpha">>] = "dir"
    /\ emitted = << >>
    /\ known_directories = {<<"Sub">>}

\* ---------------------------------------------------------------- C8
ErrorMessage == [kind |-> "Error", paths |-> << >>]

\* C8: an error from the channel prints exactly one WatchError line, leaves
\* known_directories as it was and does not end the loop: after the error
\* the loop waits on rx again with the registry untouched, where it takes
\* the next message, and it ends only at the end of the stream.
C8_DeliveryError ==
    [][/\ Received /\ e' = Some(ErrorMessage) =>
              /\ emitted' = <<WatchError>>
              /\ known_directories' = known_directories
              /\ running'
       /\ e = Some(ErrorMessage) =>
              /\ e' = None
              /\ known_directories' = known_directories
              /\ running'
       /\ running /\ ~running' => e = None /\ e' = None]_vars

\* An error has been handled, the registry is intact and the loop runs.
C8_Witness ==
    /\ e = Some(ErrorMessage)
    /\ emitted = <<WatchError>>
    /\ known_directories # {}
    /\ running
\* ---------------------------------------------------------------- C9
\* The member D was moved to the nested directory q of the same name.
MovedNested(D, q) ==
    /\ D \in known_directories /\ D \in TopLevel /\ fs[D] = "none"
    /\ ~IsTopLevel(q) /\ FileName(q) = FileName(D) /\ fs[q] = "dir"

RECURSIVE Deliver(_, _)
\* The registry and all the lines after the messages msgs have been handled
\* one after the other on the present tree, starting from st.
Deliver(msgs, st) ==
    IF msgs = << >> THEN st
    ELSE LET r == Handle(Head(msgs), st.known, fs, order) IN
         Deliver(Tail(msgs), [known |-> r.known, out |-> st.out \o r.out])

\* C9: when the member D has been moved to a nested directory q of the same
\* name, Remove(D) is reported as TopLevelMoved and the registry ends
\* without D, with the same lines and the same registry whether Create(q)
\* is delivered before Remove(D), after it, or never.
C9_OrderIndependent ==
    \A D \in Paths, q \in Paths :
        MovedNested(D, q) =>
            LET start == [known |-> known_directories, out |-> << >>]
                rm == Single("Remove", D)
                cr == Single("Create", q)
                expected == [known |-> known_directories \ {D},
                             out |-> <<TopLevelMoved(FileName(D), q)>>]
            IN  /\ Deliver(<<rm>>, start) = expected
                /\ Deliver(<<cr, rm>>, start) = expected
                /\ Deliver(<<rm, cr>>, start) = expected

\* "./Alpha" went to "./Sub/Alpha" and its removal has been handled; "./Sub"
\* is still a member and "./Alpha" is not.
C9_Witness ==
    /\ e = Some(Single("Remove", <<"Alpha">>))
    /\ emitted = <<TopLevelMoved("Alpha", <<"Sub", "Alpha">>)>>
    /\ fs[<<"Alpha">>] = "none"
    /\ known_directories = {<<"Sub">>}

\* --------------------------------------------------------------- C10
\* C10: in runs where nothing is ever moved, a Remove notification for a
\* member D that was deleted, handled after a directory of the same name
\* was created elsewhere, is reported as TopLevelMoved to that directory.
C10_FalseMove ==
    [][Received =>
          LET m == e'[1] IN
          m.kind = "Remove" /\ Len(m.paths) = 1 =>
              LET D == m.paths[1] IN
              /\ D \in known_directories
              /\ fs[D] = "none"
              /\ (\E q \in Paths \ {D} : fs[q] = "dir" /\ FileName(q) = FileName(D))
              => \E q \in Paths \ {D} :
                     /\ fs[q] = "dir"
                     /\ emitted' = <<TopLevelMoved(FileName(D), q)>>]_vars

\* "./Alpha" was deleted, "./Sub/Alpha" was created, and the removal of
\* "./Alpha" has been reported as a move.
C10_Witness ==
    /\ e = Some(Single("Remove", <<"Alpha">>))
    /\ emitted = <<TopLevelMoved("Alpha", <<"Sub", "Alpha">>)>>
    /\ fs[<<"Alpha">>] = "none"
    /\ <<"Alpha">> \in vanished

\* --------------------------------------------------------------- C11
\* C11: a notification whose kind is neither Create nor Remove, and that is
\* no error, prints nothing and leaves known_directories as it was, whatever
\* its path is.
C11_OtherIgnored ==
    [][Received =>
          LET m == e'[1] IN
          m.kind \notin {"Create", "Remove", "Error"} =>
              /\ emitted' = << >>
              /\ known_directories' = known_directories]_vars

\* A Modify event for the directory "./Alpha", which is no member: a Create
\* would have inserted it and printed a line.
C11_Witness ==
    /\ e = Some(Single("Modify", <<"Alpha">>))
    /\ fs[<<"Alpha">>] = "dir"
    /\ emitted = << >>
    /\ known_directories = {<<"Sub">>}

\* --------------------------------------------------------------- C12
\* C12: in every reachable state, after the initial scan and after any
\* sequence of notifications, the parent of every member of
\* known_directories is the watch root.
C12_MembersTopLevel ==
    \A p \in known_directories : Parent(p) = Some(watch_path)

\* Nested directories exist and their creation has been notified, and the
\* registry holds the top-level directory alone.
C12_Witness ==
    /\ e = Some([kind |-> "Create", paths |-> <<<<"Sub", "Alpha">>, <<"Sub">>>>])
    /\ fs[<<"Sub", "Alpha">>] = "dir"
    /\ known_directories = {<<"Sub">>}

\* --------------------------------------------------------------- C13
\* The line reports "./New folder" created or removed.
PlaceholderLine(l) ==
    l.type \in {"TopLevelCreated", "TopLevelRemoved"} /\ l.path = NewFolder

\* The lines of s without those that report "./New folder" created or
\* removed, in the order of s.
WithoutPlaceholderLines(s) == SelectSeq(s, LAMBDA l : ~PlaceholderLine(l))

\* C13: the run and its twin without the squelch, fed the same
\* notifications on the same trees, have the same known_directories in
\* every state, and the lines of the run are the lines of the twin without
\* the TopLevelCreated and TopLevelRemoved lines of "./New folder".
C13_SquelchOutputOnly ==
    /\ known_loud = known_directories
    /\ emitted = WithoutPlaceholderLines(emitted_loud)

\* The removal of the member "./New folder" has been handled: the twin
\* printed the line, the run did not, and both registries lost the path.
C13_Witness ==
    /\ e = Some(Single("Remove", NewFolder))
    /\ emitted = << >>
    /\ emitted_loud = <<TopLevelRemoved(NewFolder)>>
    /\ NewFolder \notin known_directories
    /\ known_directories # {}

\* --------------------------------------------------------------- C14
\* The paths of the notification m as notifications of one path each, in
\* the order m carries them.
Singles(m) == [i \in 1..Len(m.paths) |-> Single(m.kind, m.paths[i])]

\* C14: an iteration starts with no line of an earlier notification
\* outstanding, and it handles the paths of its notification one by one in
\* the order carried: the lines it prints and the registry it leaves are
\* those of handling the paths as separate notifications in that order, each
\* on the registry its predecessor left, the lines of an earlier path before
\* those of a later one.
C14_DeliveryOrder ==
    [][Received =>
          LET m == e'[1]
              r == Deliver(Singles(m),
                           [known |-> known_directories, out |-> << >>])
          IN  /\ emitted = << >>
              /\ m.kind \in {"Create", "Remove"} =>
                     /\ emitted' = r.out
                     /\ known_directories' = r.known]_vars

\* Create("./Sub", "./Alpha") has been handled: the line of "./Sub" comes
\* before the line of "./Alpha".
C14_Witness ==
    /\ e = Some([kind |-> "Create", paths |-> <<<<"Sub">>, <<"Alpha">>>>])
    /\ emitted = <<TopLevelCreated(<<"Sub">>), TopLevelCreated(<<"Alpha">>)>>

\* --------------------------------------------------------------- C15
\* C15: when rx holds a fixed number of messages and is closed, the loop
\* ends at last, and it ends only once every message of rx has been
\* received and handled: no message, an error included, ends it earlier.
C15_Termination ==
    /\ <>(~running)
    /\ [](~running => stream = Some(0) /\ e = None)
    /\ [][running /\ ~running' => stream = Some(0) /\ e = None]_vars

\* The last message of rx was an error; it has been handled and the loop
\* has not ended.
C15_Witness ==
    /\ stream = Some(0)
    /\ e = Some(ErrorMessage)
    /\ emitted = <<WatchError>>
    /\ running

\* --------------------------------------------------------------- C16
\* C16: a Remove notification never adds a member to known_directories.
\* After Remove(p) for a member p, known_directories is what it was, with
\* or without p; a TopLevelMoved line that names a top-level new_path names
\* p itself; and p is still a member iff the line is TopLevelMoved to p.
C16_RemoveNeverGrows ==
    [][Received =>
          LET m == e'[1] IN
          m.kind = "Remove" =>
              /\ known_directories' \subseteq known_directories
              /\ \A p \in known_directories :
                     m.paths = <<p>> =>
                         /\ known_directories' \in
                                {known_directories, known_directories \ {p}}
                         /\ \A q \in Paths :
                                emitted' = <<TopLevelMoved(FileName(p), q)>>
                                    /\ IsTopLevel(q) => q = p
                         /\ p \in known_directories' <=>
                                emitted' = <<TopLevelMoved(FileName(p), p)>>]_vars

\* "./Alpha" is a directory again when its removal is handled: the search
\* returns "./Alpha" itself, and the registry is what it was.
C16_Witness ==
    /\ e = Some(Single("Remove", <<"Alpha">>))
    /\ emitted = <<TopLevelMoved("Alpha", <<"Alpha">>)>>
    /\ known_directories = {<<"Alpha">>, <<"Sub">>}

\* --------------------------------------------------------------- C17
\* The registry before the i-th path of the notification m is handled.
KnownBefore(m, i) ==
    Deliver(SubSeq(Singles(m), 1, i - 1),
            [known |-> known_directories, out |-> << >>]).known

\* The lines the i-th path of the notification m prints.
LinesOf(m, i) == Handle(Single(m.kind, m.paths[i]), KnownBefore(m, i), fs, order).out

\* C17: known_directories starts as the result of the initial scan; a path
\* becomes a member only in the step of a Create notification that carries
\* it; and TopLevelRemoved and TopLevelMoved lines are printed only for a
\* path of a Remove notification that is a member when the path is handled
\* (TopLevelRemoved with that path, TopLevelMoved with its name).  So the
\* path of every such line has been a member, state after state, since the
\* initial scan or since a Create notification for it.
C17_EventsForMembers ==
    /\ known_directories = InitialScan(fs)
    /\ [][/\ \A p \in known_directories' \ known_directories :
                 /\ Received /\ e'[1].kind = "Create"
                 /\ \E i \in 1..Len(e'[1].paths) : e'[1].paths[i] = p
          /\ Received =>
                 LET m == e'[1] IN
                 /\ m.kind # "Remove" =>
                        \A j \in 1..Len(emitted') :
                            emitted'[j].type \notin {"TopLevelRemoved", "TopLevelMoved"}
                 /\ m.kind = "Remove" =>
                        \A i \in 1..Len(m.paths) :
                            LET p == m.paths[i] IN
                            /\ p \notin KnownBefore(m, i) => LinesOf(m, i) = << >>
                            /\ KnownBefore(m, i) \subseteq known_directories
                            /\ \A j \in 1..Len(LinesOf(m, i)) :
                                   LET l == LinesOf(m, i)[j] IN
                                   \/ l.type = "TopLevelRemoved" /\ l.path = p
                                   \/ l.type = "TopLevelMoved" /\ l.name = FileName(p)]_vars

\* The member "./Alpha" gave way to a file of that name, and its removal
\* has been reported.
C17_Witness ==
    /\ e = Some(Single("Remove", <<"Alpha">>))
    /\ emitted = <<TopLevelRemoved(<<"Alpha">>)>>
    /\ fs[<<"Alpha">>] = "file"
    /\ known_directories = {}

\* --------------------------------------------------------------- C18
\* known_directories after the message m is handled on the registry known
\* and the present tree.
After(m, known) == Handle(m, known, fs, order).known

\* C18: whenever a message has been handled, handling the same message once
\* more on the unchanged tree leaves known_directories as the first
\* handling left it, for every kind of message.
C18_DuplicateDelivery ==
    [][Received => After(e'[1], known_directories') = known_directories']_vars

\* Create("./Alpha") has been handled, and a second delivery now would
\* print the line again and leave the registry as it is.
C18_Witness ==
    /\ e = Some(Single("Create", <<"Alpha">>))
    /\ emitted = <<TopLevelCreated(<<"Alpha">>)>>
    /\ Handle(e[1], known_directories, fs, order) =
           [known |-> known_directories, out |-> emitted]
    /\ known_directories = {<<"Alpha">>, <<"New folder">>}
====
